---- MODULE Spec2Model ----
(***************************************************************************)
(* RFC Property Extractor (streamlit_app.py): the SmartRFCParser section   *)
(* extractor, the CSV-backed DataManager store and the five-stage workflow *)
(* held in st.session_state.                                               *)
(*                                                                         *)
(* Strings are TLA+ strings handled character by character with Len,       *)
(* SubSeq and \o, so that substring counting, strip(), upper() and the     *)
(* header regular expression are computed the way the Python code does.    *)
(***************************************************************************)
EXTENDS Integers, Sequences, FiniteSets, TLC

VARIABLES
    text,             \* SpecParse: the document text handed to SmartRFCParser.parse
    parsed,           \* SpecParse: None, or Some(result of parse(text))
    api_key,          \* API_KEY is non-empty (line 16)
    stage,            \* st.session_state.stage
    rfc_data,         \* st.session_state.rfc_data: None or Some(parse result)
    properties,       \* st.session_state.properties: None or Some(list)
    propositions,     \* st.session_state.propositions: None or Some(list)
    ltl_formulas,     \* st.session_state.ltl_formulas: None or Some(list)
    next_id,          \* the next unused record id (uuid4 ids never repeat)
    last_call,        \* the external-model call made by the latest handler, or None
    properties_file,  \* data/properties.csv: None (no file) or Some(rows)
    propositions_file,\* data/propositions.csv
    ltl_file,         \* data/ltl_formulas.csv
    complete_file,    \* data/complete_formalization.csv
    store_table,      \* SpecStore: the table this run of store calls works on
    store_op,         \* SpecStore: None, or Some(the latest DataManager call)
    conc_pc,          \* SpecConc: where each session is in save_properties
    conc_batch,       \* SpecConc: the records each session saves
    conc_read,        \* SpecConc: what each session read as the existing file
    conc_last         \* SpecConc: the session that wrote the file last (0: none)

(***************************************************************************)
(* Python's None and "a value" for variables that start as None.           *)
(***************************************************************************)
None == <<>>
Some(v) == <<v>>

(***************************************************************************)
(* Character and string helpers (Python str methods used by the parser).   *)
(***************************************************************************)
Char(s, i) == IF i >= 1 /\ i <= Len(s) THEN SubSeq(s, i, i) ELSE ""

DigitChars == {"0", "1", "2", "3", "4", "5", "6", "7", "8", "9"}

SpaceChars == {" ", "\t", "\r", "\n"}

LowerLetters == "abcdefghijklmnopqrstuvwxyz"

UpperLetters == "ABCDEFGHIJKLMNOPQRSTUVWXYZ"

UpperMap ==
    [c \in {Char(LowerLetters, k) : k \in 1..26} |->
        Char(UpperLetters, CHOOSE k \in 1..26 : Char(LowerLetters, k) = c)]

UpperChar(c) == IF c \in DOMAIN UpperMap THEN UpperMap[c] ELSE c

RECURSIVE UpperFrom(_, _)
UpperFrom(s, i) ==
    IF i > Len(s) THEN "" ELSE UpperChar(Char(s, i)) \o UpperFrom(s, i + 1)

\* str.upper()
upper(s) == UpperFrom(s, 1)

RECURSIVE SplitFrom(_, _)
\* the pieces of s from position i on, cut at every newline
SplitFrom(s, i) ==
    LET nls == { k \in i..Len(s) : SubSeq(s, k, k) = "\n" }
    IN  IF nls = {} THEN << SubSeq(s, i, Len(s)) >>
        ELSE LET e == CHOOSE k \in nls : \A m \in nls : k <= m
             IN  << SubSeq(s, i, e - 1) >> \o SplitFrom(s, e + 1)

\* text.split('\n')
split(s) == SplitFrom(s, 1)

RECURSIVE join(_)
\* '\n'.join(lines)
join(lines) ==
    IF Len(lines) = 0 THEN ""
    ELSE IF Len(lines) = 1 THEN lines[1]
    ELSE lines[1] \o "\n" \o join(Tail(lines))

RECURSIVE SkipSpaces(_, _)
\* index of the first non-whitespace character at or after i (Len(s)+1 if none)
SkipSpaces(s, i) ==
    IF i <= Len(s) /\ Char(s, i) \in SpaceChars THEN SkipSpaces(s, i + 1) ELSE i

RECURSIVE SkipSpacesBack(_, _)
\* index of the last non-whitespace character at or before i (0 if none)
SkipSpacesBack(s, i) ==
    IF i >= 1 /\ Char(s, i) \in SpaceChars THEN SkipSpacesBack(s, i - 1) ELSE i

\* str.strip()
strip(s) == SubSeq(s, SkipSpaces(s, 1), SkipSpacesBack(s, Len(s)))

RECURSIVE SkipDigits(_, _)
\* index just after the run of digits that starts at i
SkipDigits(s, i) ==
    IF i <= Len(s) /\ Char(s, i) \in DigitChars THEN SkipDigits(s, i + 1) ELSE i

\* str.startswith(prefix)
startswith(s, prefix) ==
    Len(s) >= Len(prefix) /\ SubSeq(s, 1, Len(prefix)) = prefix

\* the slice that keeps the whole string
Prefix_whole(s, n) == s

\* s[:n]
Prefix(s, n) == IF Len(s) <= n THEN s ELSE SubSeq(s, 1, n)

RECURSIVE CountFrom(_, _, _)
\* str.count(kw): non-overlapping occurrences, scanning left to right
CountFrom(s, kw, i) ==
    IF i + Len(kw) - 1 > Len(s) THEN 0
    ELSE IF SubSeq(s, i, i + Len(kw) - 1) = kw
         THEN 1 + CountFrom(s, kw, i + Len(kw))
         ELSE CountFrom(s, kw, i + 1)

count(s, kw) == CountFrom(s, kw, 1)

(***************************************************************************)
(* SmartRFCParser                                                          *)
(***************************************************************************)
RFC_KEYWORDS ==
    << "MUST", "MUST NOT", "REQUIRED", "SHALL", "SHALL NOT",
       "SHOULD", "SHOULD NOT", "RECOMMENDED", "MAY", "OPTIONAL" >>

RECURSIVE SumKeywords(_, _)
SumKeywords(up, k) ==
    IF k > Len(RFC_KEYWORDS) THEN 0
    ELSE count(up, RFC_KEYWORDS[k]) + SumKeywords(up, k + 1)

\* counting the keywords that occur rather than their occurrences
count_keywords_distinct(content) ==
    Cardinality({ k \in 1..Len(RFC_KEYWORDS) : count(upper(content), RFC_KEYWORDS[k]) > 0 })

\* the keywords counted in the text as written, without upper()
count_keywords_cased(content) == SumKeywords(content, 1)

\* SmartRFCParser._count_keywords
count_keywords(content) == SumKeywords(upper(content), 1)

RECURSIVE SkipDotGroups(_, _)
\* (?:\.\d+)* : after position p, consume ".digits" groups greedily
SkipDotGroups(s, p) ==
    IF Char(s, p) = "." /\ Char(s, p + 1) \in DigitChars
    THEN SkipDotGroups(s, SkipDigits(s, p + 1))
    ELSE p

\* rstrip('.') of the numeric group, which ends in at most one dot
rstripDot(s) ==
    IF Len(s) > 0 /\ Char(s, Len(s)) = "." THEN SubSeq(s, 1, Len(s) - 1) ELSE s

\* re.match(r'^(\d+(?:\.\d+)*\.?)\s+(.+?)$', s) for a stripped line s.
\* Every shorter alternative for group 1 is followed by a digit or a dot, so
\* the greedy numeric prefix is the only one that can be followed by \s+.
MatchHeader(s) ==
    LET d == SkipDigits(s, 1)
        g == SkipDotGroups(s, d)
        e == IF Char(s, g) = "." THEN g + 1 ELSE g
        t == SkipSpaces(s, e)
    IN  IF d > 1 /\ t > e /\ t <= Len(s)
        THEN [ok |-> TRUE,
              number |-> rstripDot(SubSeq(s, 1, e - 1)),
              title |-> strip(SubSeq(s, t, Len(s)))]
        ELSE [ok |-> FALSE, number |-> "", title |-> ""]

\* the "save previous section" block (lines 77-87 and 98-107)
FlushSection(st) ==
    IF st.current_section # "" /\ Len(st.current_content) > 0
    THEN LET content == join(st.current_content)
             keyword_count == count_keywords(content)
         IN  IF keyword_count >= 3
             THEN Append(st.sections,
                         [section |-> st.current_section,
                          title |-> st.current_title,
                          content |-> content,
                          keywords |-> keyword_count])
             ELSE st.sections
    ELSE st.sections

\* the header line kept as the first line of the new section's content
ScanLine_header_kept(st, line) ==
    LET m == MatchHeader(strip(line))
    IN  IF m.ok
        THEN [sections |-> FlushSection(st),
              current_section |-> m.number,
              current_title |-> m.title,
              current_content |-> <<line>>]
        ELSE IF st.current_section # ""
        THEN [st EXCEPT !.current_content = Append(@, line)]
        ELSE st

\* one iteration of "for line in lines" (lines 72-95)
ScanLine(st, line) ==
    LET m == MatchHeader(strip(line))
    IN  IF m.ok
        THEN [sections |-> FlushSection(st),
              current_section |-> m.number,
              current_title |-> m.title,
              current_content |-> <<>>]
        ELSE IF st.current_section # ""
        THEN [st EXCEPT !.current_content = Append(@, line)]
        ELSE st

RECURSIVE ScanLines(_, _, _)
ScanLines(st, lines, i) ==
    IF i > Len(lines) THEN st ELSE ScanLines(ScanLine(st, lines[i]), lines, i + 1)

RECURSIVE InsertBeforeEqual(_, _)
\* place x before the elements whose count equals x's count
InsertBeforeEqual(sorted, x) ==
    IF Len(sorted) = 0 THEN <<x>>
    ELSE IF Head(sorted).keywords > x.keywords
         THEN <<Head(sorted)>> \o InsertBeforeEqual(Tail(sorted), x)
         ELSE <<x>> \o sorted

RECURSIVE InsertByKeywords(_, _)
\* place x after every element whose count is >= x's count
InsertByKeywords(sorted, x) ==
    IF Len(sorted) = 0 THEN <<x>>
    ELSE IF Head(sorted).keywords >= x.keywords
         THEN <<Head(sorted)>> \o InsertByKeywords(Tail(sorted), x)
         ELSE <<x>> \o sorted

RECURSIVE SortFrom(_, _, _)
SortFrom(sorted, secs, i) ==
    IF i > Len(secs) THEN sorted
    ELSE SortFrom(InsertByKeywords(sorted, secs[i]), secs, i + 1)

\* the sort left out
sort_by_keywords_omitted(secs) == secs

\* sections.sort(key=lambda x: x['keywords'], reverse=True): stable, descending
sort_by_keywords(secs) == SortFrom(<<>>, secs, 1)

\* the state of the scan before the first line (lines 62-70)
ScanStart ==
    [sections |-> <<>>, current_section |-> "",
     current_title |-> "", current_content |-> <<>>]

\* the sections in the order they were appended, before the sort (lines 62-107)
scan_sections(txt) == FlushSection(ScanLines(ScanStart, split(txt), 1))

\* the lines before the first header collected as a section "0"
extract_property_sections_preamble(txt) ==
    sort_by_keywords(FlushSection(ScanLines(
        [ScanStart EXCEPT !.current_section = "0"], split(txt), 1)))

\* SmartRFCParser._extract_property_sections
extract_property_sections(txt) == sort_by_keywords(scan_sections(txt))

RECURSIVE TitleFrom(_, _)
TitleFrom(lines, i) ==
    IF i > Len(lines) THEN "Unknown Title"
    ELSE LET stripped == strip(lines[i])
         IN  IF Len(stripped) > 15 /\ ~startswith(stripped, "RFC")
             THEN Prefix(stripped, 100)
             ELSE TitleFrom(lines, i + 1)

\* SmartRFCParser._extract_title
extract_title(lines) == TitleFrom(lines, 1)

\* re.search(r'RFC\s*(\d+)', text, re.IGNORECASE) from position i on:
\* leftmost match, group 1
RfcSearch(txt, i) ==
    LET digits(k) == SkipSpaces(txt, k + 3)
        matches == { k \in i..(Len(txt) - 2) :
                        /\ upper(SubSeq(txt, k, k + 2)) = "RFC"
                        /\ SkipDigits(txt, digits(k)) > digits(k) }
    IN  IF matches = {} THEN "Unknown"
        ELSE LET k == CHOOSE m \in matches : \A n \in matches : m <= n
             IN  SubSeq(txt, digits(k), SkipDigits(txt, digits(k)) - 1)

\* lines[:20]
FirstLines(lines, n) == IF Len(lines) <= n THEN lines ELSE SubSeq(lines, 1, n)

\* SmartRFCParser.parse
parse(txt) ==
    [rfc_number |-> RfcSearch(txt, 1),
     title |-> extract_title(FirstLines(split(txt), 20)),
     total_chars |-> Len(txt),
     property_sections |-> extract_property_sections(txt)]

(***************************************************************************)
(* Bounded inputs of the parser                                            *)
(***************************************************************************)
MaxLines == 4

ParserLines ==
    { "1. Intro", "MUST MUST SHOULD", "2. Rules", "MUST SHOULD MAY RECOMMENDED",
      " 3.1 Sub", "4.Must not shall NOT", "" }

RECURSIVE LineSeqs(_)
LineSeqs(n) ==
    IF n = 0 THEN { <<>> }
    ELSE LET shorter == LineSeqs(n - 1)
         IN  shorter \cup { Append(ls, l) : ls \in { q \in shorter : Len(q) = n - 1 },
                                             l \in ParserLines }

\* texts of up to MaxLines lines, with or without a final newline
InputTexts ==
    { join(ls) \o nl : ls \in LineSeqs(MaxLines), nl \in {"", "\n"} }

(***************************************************************************)
(* DataManager: the CSV files.  A file is None while it does not exist and *)
(* Some(rows) afterwards; rows are kept in file order.  A cell that is     *)
(* empty in the CSV (NaN in the DataFrame, or a column the record did not  *)
(* have when it was concatenated) is the empty string.  Ids and non-empty  *)
(* cells are read back as they were written: the type inference of         *)
(* pd.read_csv on digit-only cells is outside this model.                  *)
(***************************************************************************)
RowIds(rows) == { rows[i].id : i \in 1..Len(rows) }

\* pd.read_csv of an existing file / the empty DataFrame of load_*
load(file) == IF file = None THEN <<>> ELSE file[1]

RECURSIVE KeepLast(_, _)
\* df.drop_duplicates(subset=['id'], keep='last'): a row survives iff no later
\* row has its id; surviving rows keep their order
KeepLast(rows, i) ==
    IF i > Len(rows) THEN <<>>
    ELSE IF \E j \in (i + 1)..Len(rows) : rows[j].id = rows[i].id
         THEN KeepLast(rows, i + 1)
         ELSE <<rows[i]>> \o KeepLast(rows, i + 1)

RECURSIVE KeepFirst(_, _)
KeepFirst(rows, i) ==
    IF i > Len(rows) THEN <<>>
    ELSE IF \E j \in 1..(i - 1) : rows[j].id = rows[i].id
         THEN KeepFirst(rows, i + 1)
         ELSE <<rows[i]>> \o KeepFirst(rows, i + 1)

\* keep='first' in place of keep='last'
drop_duplicates_first(rows) == KeepFirst(rows, 1)

drop_duplicates(rows) == KeepLast(rows, 1)

\* the batch written over the file without the merge
save_rows_overwrite(file, df) == Some(df)

\* the body shared by save_properties, save_propositions and save_ltl_formulas:
\* merge with the existing file when there is one, else write the batch as is
save_rows(file, df) ==
    IF file # None
    THEN Some(drop_duplicates(file[1] \o df))
    ELSE Some(df)

\* DataManager.save_properties
save_properties(file, props) == save_rows(file, props)

\* a proposition or formula record as a row of a file that may carry the
\* approved_by column
WithApprover(recs) ==
    [i \in 1..Len(recs) |->
        [f \in (DOMAIN recs[i]) \cup {"approved_by"} |->
            IF f \in DOMAIN recs[i] THEN recs[i][f] ELSE ""]]

\* DataManager.save_propositions
save_propositions(file, props) == save_rows(file, WithApprover(props))

\* DataManager.save_ltl_formulas
save_ltl_formulas(file, formulas) == save_rows(file, WithApprover(formulas))

\* the approved column assigned on every row: true for the ids, false otherwise
approve_rows_only(file, ids, approver) ==
    LET df == load(file)
    IN  Some([i \in 1..Len(df) |->
                IF df[i].id \in ids
                THEN [df[i] EXCEPT !.approved = TRUE, !.approved_by = approver]
                ELSE [df[i] EXCEPT !.approved = FALSE]])

\* the body shared by approve_propositions and approve_ltl
approve_rows(file, ids, approver) ==
    LET df == load(file)
    IN  Some([i \in 1..Len(df) |->
                IF df[i].id \in ids
                THEN [df[i] EXCEPT !.approved = TRUE, !.approved_by = approver]
                ELSE df[i]])

\* DataManager.approve_propositions
approve_propositions(file, prop_ids, approver) == approve_rows(file, prop_ids, approver)

\* DataManager.approve_ltl
approve_ltl(file, ltl_ids, approver) == approve_rows(file, ltl_ids, approver)

RECURSIVE JoinWith(_, _)
\* sep.join(strs)
JoinWith(strs, sep) ==
    IF Len(strs) = 0 THEN ""
    ELSE IF Len(strs) = 1 THEN strs[1]
    ELSE strs[1] \o sep \o JoinWith(Tail(strs), sep)

\* df[df['property_id'] == prop_id]
WherePropertyId(rows, prop_id) == SelectSeq(rows, LAMBDA r : r.property_id = prop_id)

Names(rows) == [i \in 1..Len(rows) |-> rows[i].name]

\* the last matching formula row in place of the first
CompleteRow_last(prop, props_df, ltl_df) ==
    LET prop_propositions == WherePropertyId(props_df, prop.id)
        prop_ltl == WherePropertyId(ltl_df, prop.id)
        found == Len(prop_ltl) > 0
        n == Len(prop_ltl)
    IN  [property_id |-> prop.id,
         rfc_number |-> prop.rfc,
         section |-> prop.section,
         property_type |-> prop.type,
         natural_language |-> prop.text,
         atomic_propositions |-> JoinWith(Names(prop_propositions), ", "),
         ltl_formula |-> IF found THEN prop_ltl[n].ltl_formula ELSE "",
         ltl_explanation |-> IF found THEN prop_ltl[n].explanation ELSE "",
         ltl_operators |-> IF found THEN prop_ltl[n].operators_used ELSE "",
         approved |-> IF found THEN prop_ltl[n].approved ELSE FALSE]

\* one iteration of "for _, prop in properties.iterrows()" (lines 428-454)
CompleteRow(prop, props_df, ltl_df) ==
    LET prop_propositions == WherePropertyId(props_df, prop.id)
        prop_ltl == WherePropertyId(ltl_df, prop.id)
        found == Len(prop_ltl) > 0
    IN  [property_id |-> prop.id,
         rfc_number |-> prop.rfc,
         section |-> prop.section,
         property_type |-> prop.type,
         natural_language |-> prop.text,
         atomic_propositions |-> JoinWith(Names(prop_propositions), ", "),
         ltl_formula |-> IF found THEN prop_ltl[1].ltl_formula ELSE "",
         ltl_explanation |-> IF found THEN prop_ltl[1].explanation ELSE "",
         ltl_operators |-> IF found THEN prop_ltl[1].operators_used ELSE "",
         approved |-> IF found THEN prop_ltl[1].approved ELSE FALSE]

\* DataManager.generate_complete_formalization: the returned DataFrame
generate_complete_formalization(pfile, qfile, lfile) ==
    LET props == load(pfile)
    IN  [i \in 1..Len(props) |-> CompleteRow(props[i], load(qfile), load(lfile))]

(***************************************************************************)
(* PropertyProcessor: the three calls to the external model.  The response *)
(* is an input: the call raises ("error"), answers without a JSON array    *)
(* ("nojson"), or answers with an array of items ("data").  Record ids are *)
(* uuid4 prefixes, modelled as numbers never handed out before; the        *)
(* timestamp field, which no code reads back, is left out of the records.  *)
(***************************************************************************)
MaxId == 4

MaxItems == 2

\* the files an earlier run on another document may have left: one property
\* with two propositions and two formulas, the first of them approved
EarlierProperties ==
    << [id |-> 101, rfc |-> "793", section |-> "3.4",
        text |-> "Server MUST reply", type |-> "Liveness"] >>

EarlierPropositions ==
    << [id |-> 102, property_id |-> 101, name |-> "syn_received", type |-> "event",
        description |-> "SYN received", approved |-> TRUE, approved_by |-> "User"],
       [id |-> 103, property_id |-> 101, name |-> "ack_sent", type |-> "action",
        description |-> "ACK sent", approved |-> FALSE, approved_by |-> ""] >>

EarlierFormulas ==
    << [id |-> 104, property_id |-> 101, ltl_formula |-> "G (syn_received -> F ack_sent)",
        explanation |-> "reply follows", operators_used |-> "G,->,F",
        approved |-> TRUE, approved_by |-> "User"],
       [id |-> 105, property_id |-> 101, ltl_formula |-> "F ack_sent",
        explanation |-> "eventually", operators_used |-> "F",
        approved |-> FALSE, approved_by |-> ""] >>

\* a property id the external model may answer with although it is not one of
\* the properties it was sent: the id of the property of the earlier run
OtherId == EarlierProperties[1].id

SeqsUpTo(S, n) == UNION { [1..k -> S] : k \in 0..n }

PropertyItems ==
    { [section |-> "4.2", text |-> "Client MUST NOT send", type |-> "Safety"] }

Responses(Items) ==
    { [kind |-> k, data |-> <<>>] : k \in {"error", "nojson"} }
        \cup { [kind |-> "data", data |-> d] : d \in SeqsUpTo(Items, MaxItems) }

\* PropertyProcessor.extract_properties_batch
extract_properties_batch(resp, rfc_number, first_id) ==
    IF resp.kind = "data"
    THEN [i \in 1..Len(resp.data) |->
            [id |-> first_id + i - 1,
             rfc |-> rfc_number,
             section |-> resp.data[i].section,
             text |-> resp.data[i].text,
             type |-> resp.data[i].type]]
    ELSE <<>>

\* PropertyProcessor.extract_propositions_batch
extract_propositions_batch(resp, first_id) ==
    IF resp.kind = "data"
    THEN [i \in 1..Len(resp.data) |->
            [id |-> first_id + i - 1,
             property_id |-> resp.data[i].property_id,
             name |-> resp.data[i].name,
             type |-> resp.data[i].type,
             description |-> resp.data[i].description,
             approved |-> FALSE]]
    ELSE <<>>

\* PropertyProcessor.generate_ltl_batch
generate_ltl_batch(resp, first_id) ==
    IF resp.kind = "data"
    THEN [i \in 1..Len(resp.data) |->
            [id |-> first_id + i - 1,
             property_id |-> resp.data[i].property_id,
             ltl_formula |-> resp.data[i].ltl_formula,
             explanation |-> resp.data[i].explanation,
             operators_used |-> resp.data[i].operators_used,
             approved |-> FALSE]]
    ELSE <<>>

\* what last_call holds after a handler that called the external model; a
\* handler that makes no call leaves None there
CallRecord(op, resp) == Some([op |-> op, kind |-> resp.kind])

(***************************************************************************)
(* The Streamlit script: one action per button handler.                    *)
(***************************************************************************)
Stages == <<"upload", "review_properties", "approve_propositions", "approve_ltl", "view">>

UploadTexts ==
    { "RFC 8446\n1. Rules\nMUST SHOULD MAY\n",
      "no numbered sections, MUST MUST MUST\n" }

\* parse applied to each upload
UploadParses == [content \in UploadTexts |-> parse(content)]

EditTexts == { "Client MUST NOT send", "Server MUST reply" }

EditNames == { "client_sends_data", "handshake_complete" }

EditFormulas == { "G !(client_sends_data)", "F handshake_complete" }

Approvers == { "User" }

PropositionItems ==
    { [property_id |-> p, name |-> "client_sends_data", type |-> "action",
       description |-> "Client sends data packet"] :
        p \in RowIds(IF properties = None THEN <<>> ELSE properties[1]) \cup {OtherId} }

LtlItems ==
    { [property_id |-> p, ltl_formula |-> "G !(client_sends_data)",
       explanation |-> "never sends", operators_used |-> "G,!"] :
        p \in RowIds(IF properties = None THEN <<>> ELSE properties[1]) \cup {OtherId} }

\* the emptiness test left out
Truthy_always(list) == TRUE

\* "if properties:", "if propositions:", "if ltl_formulas:" (lines 548, 599, 690)
Truthy(list) == Len(list) > 0

\* the credential test left out
MissingCredential_never == FALSE

\* "if not API_KEY:" (line 538)
MissingCredential == ~api_key

\* formula approval skipped
StageAfterGenerate_skip == "view"

\* st.session_state.stage = 'approve_ltl' (line 697)
StageAfterGenerate == "approve_ltl"

\* the stage left where it was
StageAfterReset_stay == "view"

\* st.session_state.stage = 'upload' (line 877)
StageAfterReset == "upload"

sessionVars == <<api_key, stage, rfc_data, properties, propositions, ltl_formulas,
                 next_id, last_call>>

fileVars == <<properties_file, propositions_file, ltl_file, complete_file>>

parseVars == <<text, parsed>>

storeVars == <<store_table, store_op>>

concVars == <<conc_pc, conc_batch, conc_read, conc_last>>

otherVars == <<parseVars, storeVars, concVars>>

vars == <<parseVars, sessionVars, fileVars, storeVars, concVars>>

\* the variables of the other specifications at rest
ParseIdle == text = "" /\ parsed = None

StoreIdle == store_table = "" /\ store_op = None

ConcIdle == conc_pc = <<>> /\ conc_batch = <<>> /\ conc_read = <<>> /\ conc_last = 0

SessionIdle ==
    /\ api_key = FALSE
    /\ stage = "upload"
    /\ rfc_data = None
    /\ properties = None
    /\ propositions = None
    /\ ltl_formulas = None
    /\ next_id = 1
    /\ last_call = None

\* "Parse & Extract Properties" (lines 522-558)
ParseAndExtract ==
    /\ stage = "upload"
    /\ \E content \in UploadTexts :
        LET data == UploadParses[content]
        IN  /\ rfc_data' = Some(data)
            /\ IF MissingCredential
               THEN /\ last_call' = None
                    /\ UNCHANGED <<stage, properties, next_id, properties_file>>
               ELSE \E resp \in Responses(PropertyItems) :
                    LET props == extract_properties_batch(resp, data.rfc_number, next_id)
                    IN  /\ next_id + Len(props) - 1 <= MaxId
                        /\ next_id' = next_id + Len(props)
                        /\ last_call' = CallRecord("extract_properties", resp)
                        /\ properties' = Some(props)
                        /\ IF Truthy(props)
                           THEN /\ properties_file' = save_properties(properties_file, props)
                                /\ stage' = "review_properties"
                           ELSE UNCHANGED <<properties_file, stage>>
    /\ UNCHANGED <<api_key, propositions, ltl_formulas, propositions_file, ltl_file,
                   complete_file, otherVars>>

\* "Save Changes" (lines 582-589); the editor input is an edit of the cells
\* of the existing rows
SaveChanges ==
    /\ stage = "review_properties"
    /\ LET props == properties[1]
       IN  \E edited \in [1..Len(props) -> EditTexts] :
           LET updated == [i \in 1..Len(props) |-> [props[i] EXCEPT !.text = edited[i]]]
           IN  /\ properties' = Some(updated)
               /\ properties_file' = save_properties(properties_file, updated)
    /\ last_call' = None
    /\ UNCHANGED <<api_key, stage, rfc_data, propositions, ltl_formulas, next_id,
                   propositions_file, ltl_file, complete_file, otherVars>>

\* "Extract Propositions" (lines 592-609)
ExtractPropositions ==
    /\ stage = "review_properties"
    /\ \E resp \in Responses(PropositionItems) :
        LET props == extract_propositions_batch(resp, next_id)
        IN  /\ next_id + Len(props) - 1 <= MaxId
            /\ next_id' = next_id + Len(props)
            /\ last_call' = CallRecord("extract_propositions", resp)
            /\ propositions' = Some(props)
            /\ IF Truthy(props)
               THEN /\ propositions_file' = save_propositions(propositions_file, props)
                    /\ stage' = "approve_propositions"
               ELSE UNCHANGED <<propositions_file, stage>>
    /\ UNCHANGED <<api_key, rfc_data, properties, ltl_formulas, properties_file,
                   ltl_file, complete_file, otherVars>>

\* indices of the in-session propositions of one property (line 625)
IndicesOf(list, prop_id) == { i \in 1..Len(list) : list[i].property_id = prop_id }

\* the records of a list at a set of indices, in list order
RECURSIVE Pick(_, _, _)
Pick(list, idx, i) ==
    IF i > Len(list) THEN <<>>
    ELSE IF i \in idx THEN <<list[i]>> \o Pick(list, idx, i + 1)
    ELSE Pick(list, idx, i + 1)

\* "Approve" of one property's propositions (lines 653-667): the edits are
\* written into the in-session records, which are saved and then approved
ApprovePropositions ==
    /\ stage = "approve_propositions"
    /\ \E p \in 1..Len(properties[1]) :
        LET prop_id == properties[1][p].id
            idx == IndicesOf(propositions[1], prop_id)
        IN  /\ idx # {}
            /\ \E edited \in [idx -> EditNames], approver \in Approvers :
                LET updated == [i \in 1..Len(propositions[1]) |->
                                  IF i \in idx
                                  THEN [propositions[1][i] EXCEPT !.name = edited[i]]
                                  ELSE propositions[1][i]]
                    prop_propositions == Pick(updated, idx, 1)
                IN  /\ propositions' = Some(updated)
                    /\ propositions_file' =
                         approve_propositions(
                             save_propositions(propositions_file, prop_propositions),
                             RowIds(prop_propositions), approver)
    /\ last_call' = None
    /\ UNCHANGED <<api_key, stage, rfc_data, properties, ltl_formulas, next_id, properties_file, ltl_file, complete_file, otherVars>>

\* "Generate LTL Formulas" (lines 671-700)
GenerateLTL ==
    /\ stage = "approve_propositions"
    /\ \E resp \in Responses(LtlItems) :
        LET formulas == generate_ltl_batch(resp, next_id)
        IN  /\ next_id + Len(formulas) - 1 <= MaxId
            /\ next_id' = next_id + Len(formulas)
            /\ last_call' = CallRecord("generate_ltl", resp)
            /\ ltl_formulas' = Some(formulas)
            /\ IF Truthy(formulas)
               THEN /\ ltl_file' = save_ltl_formulas(ltl_file, formulas)
                    /\ stage' = StageAfterGenerate
               ELSE UNCHANGED <<ltl_file, stage>>
    /\ UNCHANGED <<api_key, rfc_data, properties, propositions, properties_file,
                   propositions_file, complete_file, otherVars>>

\* "Approve LTL" of one formula (lines 770-779)
ApproveLTL ==
    /\ stage = "approve_ltl"
    /\ \E k \in 1..Len(ltl_formulas[1]) :
        /\ ltl_formulas[1][k].property_id \in RowIds(properties[1])
        /\ \E formula \in EditFormulas, approver \in Approvers :
            LET ltl == [ltl_formulas[1][k] EXCEPT !.ltl_formula = formula]
            IN  /\ ltl_formulas' = Some([ltl_formulas[1] EXCEPT ![k] = ltl])
                /\ ltl_file' = approve_ltl(save_ltl_formulas(ltl_file, <<ltl>>),
                                           {ltl.id}, approver)
    /\ last_call' = None
    /\ UNCHANGED <<api_key, stage, rfc_data, properties, propositions, next_id, properties_file, propositions_file, complete_file, otherVars>>

\* "Finish & View Complete Data" (lines 787-789); the rerun renders the view
\* stage, which regenerates the complete table (lines 793-801)
Finish ==
    /\ stage = "approve_ltl"
    /\ stage' = "view"
    /\ complete_file' = Some(generate_complete_formalization(
                                properties_file, propositions_file, ltl_file))
    /\ last_call' = None
    /\ UNCHANGED <<api_key, rfc_data, properties, propositions, ltl_formulas, next_id, properties_file, propositions_file, ltl_file, otherVars>>

\* sidebar "Generate Complete CSV" (lines 495-497), offered in every stage
GenerateCompleteCSV ==
    /\ complete_file' = Some(generate_complete_formalization(
                                properties_file, propositions_file, ltl_file))
    /\ last_call' = None
    /\ UNCHANGED <<api_key, stage, rfc_data, properties, propositions, ltl_formulas, next_id,
                   properties_file, propositions_file, ltl_file, otherVars>>

\* "Process Another RFC" (lines 876-882)
Reset ==
    /\ stage = "view"
    /\ stage' = StageAfterReset
    /\ rfc_data' = None
    /\ properties' = None
    /\ propositions' = None
    /\ ltl_formulas' = None
    /\ last_call' = None
    /\ UNCHANGED <<api_key, next_id, fileVars, otherVars>>

\* session initialisation (lines 464-472); the data directory is empty or
\* holds the files of the earlier run
Init ==
    /\ api_key \in BOOLEAN
    /\ stage = "upload"
    /\ rfc_data = None
    /\ properties = None
    /\ propositions = None
    /\ ltl_formulas = None
    /\ next_id = 1
    /\ last_call = None
    /\ \/ /\ properties_file = None
          /\ propositions_file = None
          /\ ltl_file = None
       \/ /\ properties_file = Some(EarlierProperties)
          /\ propositions_file = Some(EarlierPropositions)
          /\ ltl_file = Some(EarlierFormulas)
    /\ complete_file = None
    /\ ParseIdle
    /\ StoreIdle
    /\ ConcIdle

Next ==
    \/ ParseAndExtract
    \/ SaveChanges
    \/ ExtractPropositions
    \/ ApprovePropositions
    \/ GenerateLTL
    \/ ApproveLTL
    \/ Finish
    \/ GenerateCompleteCSV
    \/ Reset

Spec == Init /\ [][Next]_vars

(***************************************************************************)
(* The parser alone, applied to every text of the bounded input set.       *)
(***************************************************************************)
InitParse ==
    /\ text \in InputTexts
    /\ parsed = None
    /\ SessionIdle
    /\ properties_file = None
    /\ propositions_file = None
    /\ ltl_file = None
    /\ complete_file = None
    /\ StoreIdle
    /\ ConcIdle

ParseText ==
    /\ parsed = None
    /\ parsed' = Some(parse(text))
    /\ UNCHANGED <<text, sessionVars, fileVars, storeVars, concVars>>

NextParse == ParseText

SpecParse == InitParse /\ [][NextParse]_vars

(***************************************************************************)
(* The parser applied to texts that exercise the title routine: a number   *)
(* of short lines, then two lines drawn from TitleLines.                   *)
(***************************************************************************)
MaxLead == 20

TlsTitle == "The Transport Layer Security (TLS) Protocol"

LongLine == TlsTitle \o " / " \o TlsTitle \o " / " \o TlsTitle

LeadLines == { "", "RFC 1", "Note" }

TitleLines ==
    { TlsTitle, "  " \o TlsTitle \o "  ", "   RFC 8446 TLS 1.3   ", "RFC 8446 is TLS 1.3",
      "exactly15chars!", "   padded        ", LongLine }

RECURSIVE Repeat(_, _)
Repeat(l, n) == IF n = 0 THEN <<>> ELSE <<l>> \o Repeat(l, n - 1)

TitleTexts ==
    { join(Repeat(l, k) \o <<a, b>>) :
        l \in LeadLines, k \in 0..MaxLead, a \in TitleLines, b \in TitleLines }

InitTitle ==
    /\ text \in TitleTexts
    /\ parsed = None
    /\ SessionIdle
    /\ properties_file = None
    /\ propositions_file = None
    /\ ltl_file = None
    /\ complete_file = None
    /\ StoreIdle
    /\ ConcIdle

SpecTitle == InitTitle /\ [][NextParse]_vars

(***************************************************************************)
(* The DataManager calls alone, on one table, with any batch of records    *)
(* the callers can pass: non-empty, unapproved, with distinct ids.         *)
(***************************************************************************)
MaxStoreId == 3

MaxBatch == 2

StoreIds == 1..MaxStoreId

PropertyRecords ==
    { [id |-> i, rfc |-> "8446", section |-> "4.2", text |-> t, type |-> "Safety"] :
        i \in StoreIds, t \in EditTexts }

PropositionRecords ==
    { [id |-> i, property_id |-> 1, name |-> n, type |-> "action",
       description |-> "Client sends data packet", approved |-> FALSE] :
        i \in StoreIds, n \in EditNames }

FormulaRecords ==
    { [id |-> i, property_id |-> 1, ltl_formula |-> f, explanation |-> "never sends",
       operators_used |-> "G,!", approved |-> FALSE] :
        i \in StoreIds, f \in EditFormulas }

DistinctIds(recs) == \A i, j \in 1..Len(recs) : i # j => recs[i].id # recs[j].id

Batches(Records) ==
    { b \in SeqsUpTo(Records, MaxBatch) : Len(b) > 0 /\ DistinctIds(b) }

PropertyBatches == Batches(PropertyRecords)

PropositionBatches == Batches(PropositionRecords)

FormulaBatches == Batches(FormulaRecords)

IdSets == (SUBSET StoreIds) \ {{}}

\* the latest DataManager call: its arguments and the ids the file held
StoreCall(op, batch, ids, file) ==
    Some([op |-> op, batch |-> batch, ids |-> ids, existed |-> RowIds(load(file))])

InitStore ==
    /\ store_table \in {"properties", "propositions", "ltl_formulas"}
    /\ store_op = None
    /\ SessionIdle
    /\ properties_file = None
    /\ propositions_file = None
    /\ ltl_file = None
    /\ complete_file = None
    /\ ParseIdle
    /\ ConcIdle

StoreSaveProperties ==
    /\ store_table = "properties"
    /\ \E batch \in PropertyBatches :
        /\ properties_file' = save_properties(properties_file, batch)
        /\ store_op' = StoreCall("save", batch, {}, properties_file)
    /\ UNCHANGED <<store_table, propositions_file, ltl_file, complete_file,
                   sessionVars, parseVars, concVars>>

StoreSavePropositions ==
    /\ store_table = "propositions"
    /\ \E batch \in PropositionBatches :
        /\ propositions_file' = save_propositions(propositions_file, batch)
        /\ store_op' = StoreCall("save", batch, {}, propositions_file)
    /\ UNCHANGED <<store_table, properties_file, ltl_file, complete_file,
                   sessionVars, parseVars, concVars>>

StoreSaveLtlFormulas ==
    /\ store_table = "ltl_formulas"
    /\ \E batch \in FormulaBatches :
        /\ ltl_file' = save_ltl_formulas(ltl_file, batch)
        /\ store_op' = StoreCall("save", batch, {}, ltl_file)
    /\ UNCHANGED <<store_table, properties_file, propositions_file, complete_file,
                   sessionVars, parseVars, concVars>>

StoreApprovePropositions ==
    /\ store_table = "propositions"
    /\ \E ids \in IdSets, approver \in Approvers :
        /\ propositions_file' = approve_propositions(propositions_file, ids, approver)
        /\ store_op' = StoreCall("approve", <<>>, ids, propositions_file)
    /\ UNCHANGED <<store_table, properties_file, ltl_file, complete_file,
                   sessionVars, parseVars, concVars>>

StoreApproveLtl ==
    /\ store_table = "ltl_formulas"
    /\ \E ids \in IdSets, approver \in Approvers :
        /\ ltl_file' = approve_ltl(ltl_file, ids, approver)
        /\ store_op' = StoreCall("approve", <<>>, ids, ltl_file)
    /\ UNCHANGED <<store_table, properties_file, propositions_file, complete_file,
                   sessionVars, parseVars, concVars>>

NextStore ==
    \/ StoreSaveProperties
    \/ StoreSavePropositions
    \/ StoreSaveLtlFormulas
    \/ StoreApprovePropositions
    \/ StoreApproveLtl

SpecStore == InitStore /\ [][NextStore]_vars

(***************************************************************************)
(* The save_* methods called with any non-empty batch, one that repeats an *)
(* id included: the methods do not look at the batch before writing it.    *)
(***************************************************************************)
AnyBatches(Records) == { b \in SeqsUpTo(Records, MaxBatch) : Len(b) > 0 }

AnyPropertyBatches == AnyBatches(PropertyRecords)

AnyPropositionBatches == AnyBatches(PropositionRecords)

AnyFormulaBatches == AnyBatches(FormulaRecords)

SaveAnyProperties ==
    /\ store_table = "properties"
    /\ \E batch \in AnyPropertyBatches :
        /\ properties_file' = save_properties(properties_file, batch)
        /\ store_op' = StoreCall("save", batch, {}, properties_file)
    /\ UNCHANGED <<store_table, propositions_file, ltl_file, complete_file,
                   sessionVars, parseVars, concVars>>

SaveAnyPropositions ==
    /\ store_table = "propositions"
    /\ \E batch \in AnyPropositionBatches :
        /\ propositions_file' = save_propositions(propositions_file, batch)
        /\ store_op' = StoreCall("save", batch, {}, propositions_file)
    /\ UNCHANGED <<store_table, properties_file, ltl_file, complete_file,
                   sessionVars, parseVars, concVars>>

SaveAnyLtlFormulas ==
    /\ store_table = "ltl_formulas"
    /\ \E batch \in AnyFormulaBatches :
        /\ ltl_file' = save_ltl_formulas(ltl_file, batch)
        /\ store_op' = StoreCall("save", batch, {}, ltl_file)
    /\ UNCHANGED <<store_table, properties_file, propositions_file, complete_file,
                   sessionVars, parseVars, concVars>>

NextSave ==
    \/ SaveAnyProperties
    \/ SaveAnyPropositions
    \/ SaveAnyLtlFormulas

SpecSave == InitStore /\ [][NextSave]_vars

(***************************************************************************)
(* Two sessions in save_properties at once.  Nothing locks the file:       *)
(* exists() and read_csv (lines 358-359) are one step of a session and     *)
(* to_csv (line 363) a later one.                                          *)
(***************************************************************************)
Sessions == {1, 2}

MaxConcBatch == 2

\* the ids of the records of session s (uuid ids differ across sessions)
SessionIds(s) == { 10 * s + k : k \in 1..MaxConcBatch }

ConcBatches(s) ==
    { b \in SeqsUpTo({ [id |-> i, rfc |-> "8446", section |-> "4.2",
                         text |-> "Client MUST NOT send", type |-> "Safety"] :
                         i \in SessionIds(s) }, MaxConcBatch) :
        Len(b) > 0 /\ DistinctIds(b) }

InitConc ==
    /\ conc_pc = [s \in Sessions |-> "start"]
    /\ conc_batch \in [Sessions -> UNION { ConcBatches(s) : s \in Sessions }]
    /\ \A s \in Sessions : conc_batch[s] \in ConcBatches(s)
    /\ conc_read = [s \in Sessions |-> None]
    /\ conc_last = 0
    /\ properties_file \in {None, Some(EarlierProperties)}
    /\ propositions_file = None
    /\ ltl_file = None
    /\ complete_file = None
    /\ SessionIdle
    /\ ParseIdle
    /\ StoreIdle

\* lines 358-359: the existing file as this session sees it
ConcRead(s) ==
    /\ conc_pc[s] = "start"
    /\ conc_read' = [conc_read EXCEPT ![s] = properties_file]
    /\ conc_pc' = [conc_pc EXCEPT ![s] = "read"]
    /\ UNCHANGED <<conc_batch, conc_last, fileVars, sessionVars, parseVars, storeVars>>

\* the batch merged with the file as it is at the time of writing
ConcMerged_reread(s) == save_properties(properties_file, conc_batch[s])

\* what session s writes: its batch merged with the file as it read it
ConcMerged(s) == save_properties(conc_read[s], conc_batch[s])

\* line 363: to_csv of the merged frame
ConcWrite(s) ==
    /\ conc_pc[s] = "read"
    /\ properties_file' = ConcMerged(s)
    /\ conc_pc' = [conc_pc EXCEPT ![s] = "done"]
    /\ conc_last' = s
    /\ UNCHANGED <<conc_batch, conc_read, propositions_file, ltl_file, complete_file,
                   sessionVars, parseVars, storeVars>>

NextConc == \E s \in Sessions : ConcRead(s) \/ ConcWrite(s)

SpecConc == InitConc /\ [][NextConc]_vars

(***************************************************************************)
(* Properties                                                              *)
(***************************************************************************)
\* the section list returned by the parser (empty before it has run)
Sections == IF parsed = None THEN <<>> ELSE parsed[1].property_sections

\* C1: every section returned by _extract_property_sections has keyword count
\* >= 3, and each section's count is >= the count of the section after it.
C1_DenseAndRanked ==
    /\ \A i \in 1..Len(Sections) : Sections[i].keywords >= 3
    /\ \A i \in 1..(Len(Sections) - 1) : Sections[i].keywords >= Sections[i + 1].keywords

\* two sections are returned and the sort has moved the later, denser one first
C1_Witness ==
    /\ Len(Sections) = 2
    /\ Sections[1].keywords > Sections[2].keywords
    /\ split(text)[1] = "1. Intro"
    /\ Sections[1].section = "2"
    /\ Sections[2].section = "1"

C2Text == "1. Intro\nMUST MUST SHOULD\n2. Rules\nMUST SHOULD MAY RECOMMENDED\n"

\* C2 as stated: for C2Text the extractor counts 1 keyword for section "1"
\* and drops it, counts 4 for section "2", and returns section "2" alone.
C2_Original ==
    (text = C2Text /\ parsed # None) =>
        /\ count_keywords("MUST MUST SHOULD") = 1
        /\ Len(Sections) = 1
        /\ Sections[1].section = "2"
        /\ Sections[1].keywords = 4

\* C2: for C2Text the extractor counts 3 keywords for section "1" (MUST twice,
\* SHOULD once) and keeps it, counts 4 for section "2", and returns the two
\* sections with "2" before "1".
C2_Amended ==
    (text = C2Text /\ parsed # None) =>
        /\ Len(Sections) = 2
        /\ Sections[1].section = "2"
        /\ Sections[1].keywords = 4
        /\ Sections[2].section = "1"
        /\ Sections[2].keywords = 3

C2_Witness == text = C2Text /\ parsed # None /\ Len(Sections) > 0

\* the file of the table the store calls work on
StoreFile ==
    CASE store_table = "properties" -> properties_file
      [] store_table = "propositions" -> propositions_file
      [] OTHER -> ltl_file

\* row carries exactly the fields of the saved record; a column the record
\* does not have is empty
IsRowOf(rec, row) ==
    /\ DOMAIN rec \subseteq DOMAIN row
    /\ \A f \in DOMAIN row : row[f] = IF f \in DOMAIN rec THEN rec[f] ELSE ""

UpsertEffect(old, batch, new) ==
    /\ \A k \in 1..Len(batch) :
        \E j \in 1..Len(new) :
            /\ IsRowOf(batch[k], new[j])
            /\ \A m \in 1..Len(new) : new[m].id = batch[k].id => m = j
    /\ \A i \in 1..Len(old) :
        old[i].id \notin RowIds(batch) => \E j \in 1..Len(new) : new[j] = old[i]

StageIndex(s) == CHOOSE i \in 1..Len(Stages) : Stages[i] = s

\* C4: the session starts in upload; every step keeps the stage or moves it to
\* its immediate successor, except the reset from view back to upload.
C4_StageOrder ==
    /\ stage = "upload"
    /\ [][\/ stage' = stage
          \/ StageIndex(stage') = StageIndex(stage) + 1
          \/ stage = "view" /\ stage' = "upload"]_vars

\* back in upload after a full pass through the five stages
C4_Witness ==
    /\ stage = "upload"
    /\ properties = None
    /\ next_id > 3
    /\ complete_file # None

NonEmpty(list) == list # None /\ Len(list[1]) > 0

\* C5: outside upload the in-session property list is non-empty; from
\* approve_propositions on the proposition list is non-empty; in approve_ltl
\* and view the formula list is non-empty.
C5_StageOutputs ==
    /\ stage # "upload" => NonEmpty(properties)
    /\ stage \in {"approve_propositions", "approve_ltl", "view"} => NonEmpty(propositions)
    /\ stage \in {"approve_ltl", "view"} => NonEmpty(ltl_formulas)

C5_Witness ==
    /\ stage = "view"
    /\ NonEmpty(properties)
    /\ NonEmpty(propositions)
    /\ NonEmpty(ltl_formulas)

\* C6: when an external-model call raises or answers without a JSON array, the
\* operation returns the empty list, the stage stays what it was and the
\* properties, propositions and formulas files are unchanged.
C6_FailedCallHalts ==
    [][(last_call' # None /\ last_call'[1].kind \in {"error", "nojson"}) =>
          /\ last_call'[1].op = "extract_properties" => properties' = Some(<<>>)
          /\ last_call'[1].op = "extract_propositions" => propositions' = Some(<<>>)
          /\ last_call'[1].op = "generate_ltl" => ltl_formulas' = Some(<<>>)
          /\ stage' = stage
          /\ UNCHANGED <<properties_file, propositions_file, ltl_file>>]_vars

\* a failed formula generation with properties and propositions already saved
C6_Witness ==
    /\ last_call # None
    /\ last_call[1].kind \in {"error", "nojson"}
    /\ last_call[1].op = "generate_ltl"
    /\ stage = "approve_propositions"
    /\ properties_file # None
    /\ propositions_file # None

\* C7: no step removes an id from the persisted properties, propositions or
\* formulas table.
C7_NoDeletion ==
    [][/\ RowIds(load(properties_file)) \subseteq RowIds(load(properties_file'))
       /\ RowIds(load(propositions_file)) \subseteq RowIds(load(propositions_file'))
       /\ RowIds(load(ltl_file)) \subseteq RowIds(load(ltl_file'))]_vars

\* after a reset the files hold the earlier run's records and this run's
C7_Witness ==
    /\ stage = "upload"
    /\ {EarlierProperties[1].id, 1} \subseteq RowIds(load(properties_file))
    /\ Len(load(propositions_file)) > Len(EarlierPropositions)
    /\ Len(load(ltl_file)) > Len(EarlierFormulas)

AllDone == conc_pc # <<>> /\ \A s \in Sessions : conc_pc[s] = "done"

\* none of the records session s saved is in the file
Absent(s) == RowIds(conc_batch[s]) \cap RowIds(load(properties_file)) = {}

\* C8: once both concurrent saves have finished, a session's records are
\* either all in the file or all absent, and they are absent exactly when
\* the other session wrote last from a read taken before this one's write.
C8_LostUpdate ==
    AllDone =>
        \A s \in Sessions :
            /\ Absent(s) \/ RowIds(conc_batch[s]) \subseteq RowIds(load(properties_file))
            /\ Absent(s) <=>
                 /\ conc_last # s
                 /\ RowIds(conc_batch[s]) \cap RowIds(load(conc_read[conc_last])) = {}

\* both saves returned and one session's records are gone
C8_Witness == AllDone /\ \E s \in Sessions : Absent(s)

HasFormula(ltl_df, prop_id) == \E k \in 1..Len(ltl_df) : ltl_df[k].property_id = prop_id

FirstFormula(ltl_df, prop_id) ==
    ltl_df[CHOOSE k \in 1..Len(ltl_df) :
              /\ ltl_df[k].property_id = prop_id
              /\ \A j \in 1..(k - 1) : ltl_df[j].property_id # prop_id]

IsJoinOf(rows, props_df, ltl_df) ==
    /\ Len(rows) = Len(props_df)
    /\ \A i \in 1..Len(rows) :
        /\ rows[i].property_id = props_df[i].id
        /\ rows[i].natural_language = props_df[i].text
        /\ IF HasFormula(ltl_df, props_df[i].id)
           THEN LET f == FirstFormula(ltl_df, props_df[i].id)
                IN  /\ rows[i].ltl_formula = f.ltl_formula
                    /\ rows[i].ltl_explanation = f.explanation
                    /\ rows[i].ltl_operators = f.operators_used
                    /\ rows[i].approved = f.approved
           ELSE /\ rows[i].ltl_formula = ""
                /\ rows[i].ltl_explanation = ""
                /\ rows[i].ltl_operators = ""
                /\ rows[i].approved = FALSE

\* C9: whenever the complete table is regenerated it has one row per persisted
\* property, in file order, whose formula fields are those of the first
\* persisted formula row with that property_id, or empty and unapproved when
\* there is none; nothing of the in-session lists enters it.
C9_CompleteJoin ==
    [][complete_file' # complete_file =>
          IsJoinOf(complete_file'[1], load(properties_file'), load(ltl_file'))]_vars

\* the table holds the earlier run's property with the first of its two
\* formulas, and a property of this run that has no formula yet
C9_Witness ==
    /\ complete_file # None
    /\ \E i \in 1..Len(complete_file[1]) :
        /\ complete_file[1][i].property_id = EarlierProperties[1].id
        /\ complete_file[1][i].ltl_formula = EarlierFormulas[1].ltl_formula
        /\ complete_file[1][i].approved
    /\ \E i \in 1..Len(complete_file[1]) :
        /\ complete_file[1][i].property_id = 1
        /\ complete_file[1][i].ltl_formula = ""
        /\ ~complete_file[1][i].approved

\* C10: without a credential the stage is always upload, no external call is
\* made, no property list is set and no step changes the three files.
C10_NoCredential ==
    /\ [](~api_key => stage = "upload" /\ last_call = None /\ properties = None)
    /\ [][~api_key => UNCHANGED <<properties_file, propositions_file, ltl_file>>]_vars

\* parse was pressed without a credential: the extractor ran and found sections
C10_Witness ==
    /\ ~api_key
    /\ rfc_data # None
    /\ Len(rfc_data[1].property_sections) > 0
    /\ stage = "upload"

\* the lines of the text, and whether a line is a section header
Lines == split(text)

IsHeader(line) == MatchHeader(strip(line)).ok

\* C11: when no line of the text, trimmed, matches the header pattern, the
\* extractor returns no section, whatever keywords the text contains.
C11_NoHeaderNoSection ==
    parsed # None =>
        LET ls == Lines
        IN  (\A i \in 1..Len(ls) : ~IsHeader(ls[i])) => Sections = <<>>

\* a parsed text without headers that holds three keywords or more
C11_Witness ==
    /\ parsed # None
    /\ \A i \in 1..Len(Lines) : ~IsHeader(Lines[i])
    /\ \E i \in 1..Len(Lines) : Lines[i] = "4.Must not shall NOT"
    /\ count_keywords(text) >= 3

\* the sections of a list that have keyword count n, in list order
WithCount(secs, n) == SelectSeq(secs, LAMBDA x : x.keywords = n)

\* C12: sections with equal keyword count are returned in the order in which
\* the scan met them in the text.
C12_StableTies ==
    parsed # None =>
        \A n \in { Sections[i].keywords : i \in 1..Len(Sections) } :
            WithCount(Sections, n) = WithCount(scan_sections(text), n)

\* two different sections tie and come back in text order
C12_Witness ==
    /\ Len(Sections) = 2
    /\ Sections[1].keywords = Sections[2].keywords
    /\ Sections[1].section = "1"
    /\ Sections[2].section = "2"
    /\ Lines[1] = "1. Intro"

\* positions of s at which kw starts
Occurrences(s, kw) ==
    { i \in 1..(Len(s) - Len(kw) + 1) : SubSeq(s, i, i + Len(kw) - 1) = kw }

RECURSIVE OccurrenceSum(_, _)
\* occurrences in the upper-cased text up of the keywords k, k + 1, ...
OccurrenceSum(up, k) ==
    IF k > Len(RFC_KEYWORDS) THEN 0
    ELSE Cardinality(Occurrences(up, RFC_KEYWORDS[k])) + OccurrenceSum(up, k + 1)

\* occurrences of the three negated keywords
Negated(up) ==
    Cardinality(Occurrences(up, "MUST NOT"))
        + Cardinality(Occurrences(up, "SHALL NOT"))
        + Cardinality(Occurrences(up, "SHOULD NOT"))

\* occurrences of the seven keywords that are not a negated form
Plain(up) ==
    Cardinality(Occurrences(up, "MUST"))
        + Cardinality(Occurrences(up, "REQUIRED"))
        + Cardinality(Occurrences(up, "SHALL"))
        + Cardinality(Occurrences(up, "SHOULD"))
        + Cardinality(Occurrences(up, "RECOMMENDED"))
        + Cardinality(Occurrences(up, "MAY"))
        + Cardinality(Occurrences(up, "OPTIONAL"))

\* the count the claim gives to a text
ClaimedCount(s) ==
    LET up == upper(s)
    IN  [total |-> OccurrenceSum(up, 1), plain |-> Plain(up), negated |-> Negated(up)]

\* C13: the keyword count of a returned section, and of any line of the text,
\* is the sum over the ten keywords of the case-insensitive occurrences of the
\* keyword; an occurrence of MUST NOT, SHALL NOT or SHOULD NOT is counted once
\* as itself and once more as MUST, SHALL or SHOULD.
C13_SubstringCount ==
    parsed # None =>
        /\ \A i \in 1..Len(Sections) :
            LET c == ClaimedCount(Sections[i].content)
            IN  /\ Sections[i].keywords = c.total
                /\ c.total = c.plain + c.negated
                /\ c.plain >= c.negated
        /\ \A l \in ParserLines : count_keywords(l) = ClaimedCount(l).total

\* a returned section written in mixed case whose two negated keywords count 4
C13_Witness ==
    /\ Len(Sections) > 0
    /\ Sections[1].content = "4.Must not shall NOT"
    /\ Sections[1].keywords = 4

\* C15: every returned section comes from a header line of the text, and its
\* content is the newline-join of the lines after that header up to the next
\* header or the end of the text; no header line and no line before the
\* first header is in it, and its count is the count of that content.
C15_ContentBetweenHeaders ==
    parsed # None =>
        LET ls == Lines
            hs == { h \in 1..Len(ls) : IsHeader(ls[h]) }
            end(h) == IF \E e \in hs : e > h
                      THEN CHOOSE e \in hs : e > h /\ \A m \in hs : m > h => e <= m
                      ELSE Len(ls) + 1
        IN  \A i \in 1..Len(Sections) :
                \E h \in hs :
                    /\ MatchHeader(strip(ls[h])).number = Sections[i].section
                    /\ end(h) > h + 1
                    /\ Sections[i].content = join(SubSeq(ls, h + 1, end(h) - 1))
                    /\ Sections[i].keywords = count_keywords(Sections[i].content)

\* text before the first header, and a section of two lines that ends at the
\* next header
C15_Witness ==
    /\ parsed # None
    /\ Len(Lines) = 4
    /\ Lines[1] = "MUST MUST SHOULD"
    /\ IsHeader(Lines[2])
    /\ IsHeader(Lines[4])
    /\ Len(Sections) = 1
    /\ Sections[1].content = Lines[3]

\* the first 20 lines of the text
First20 == IF Len(Lines) <= 20 THEN Lines ELSE SubSeq(Lines, 1, 20)

\* the first 100 characters of a line
Cut100(l) == IF Len(l) <= 100 THEN l ELSE SubSeq(l, 1, 100)

\* least element of a non-empty set of numbers
Least(S) == CHOOSE i \in S : \A j \in S : i <= j

\* C14 as stated: the title is the first of the first 20 lines that is longer
\* than 15 characters and does not start with "RFC", cut to 100 characters.
C14_Original ==
    parsed # None =>
        LET ls == First20
            q == { i \in 1..Len(ls) : Len(ls[i]) > 15 /\ ~startswith(ls[i], "RFC") }
        IN  q # {} => parsed[1].title = Cut100(ls[Least(q)])

\* C14 amended: the length and the prefix are tested on the trimmed line, and
\* the title is the first such trimmed line of the first 20 lines cut to 100
\* characters ("Unknown Title" when there is none); when line 3 is the first
\* such line, the title is the trimmed line 3.
C14_Amended ==
    parsed # None =>
        LET ls == [i \in 1..Len(First20) |-> strip(First20[i])]
            q == { i \in 1..Len(ls) : Len(ls[i]) > 15 /\ ~startswith(ls[i], "RFC") }
        IN  /\ q # {} => parsed[1].title = Cut100(ls[Least(q)])
            /\ q = {} => parsed[1].title = "Unknown Title"
            /\ (q # {} /\ Least(q) = 3 /\ Len(ls[3]) <= 100) => parsed[1].title = ls[3]

\* line 3 is the indented title, after two lines that do not qualify
C14_Witness ==
    /\ parsed # None
    /\ Len(Lines) = 4
    /\ Lines[1] = "RFC 1"
    /\ Lines[3] = "  " \o TlsTitle \o "  "
    /\ parsed[1].title = TlsTitle

\* the ids of the rows of a file that are approved
ApprovedIds(file) == { load(file)[i].id : i \in { k \in 1..Len(load(file)) : load(file)[k].approved } }

\* every row of the file with one of the ids is approved, and each id has a row
AllApproved(file, ids) ==
    /\ ids \subseteq RowIds(load(file))
    /\ \A i \in 1..Len(load(file)) : load(file)[i].id \in ids => load(file)[i].approved

\* C16: no handler undoes an approval: a proposition row or a formula row that
\* is approved in the store before a user action is in the store and approved
\* after it.
C16_ApprovalKept ==
    [][ /\ AllApproved(propositions_file', ApprovedIds(propositions_file))
        /\ AllApproved(ltl_file', ApprovedIds(ltl_file)) ]_vars

\* a proposition and a formula of this session are approved in the store while
\* the in-session records, which the next Approve saves again, say they are not
C16_Witness ==
    /\ propositions # None
    /\ ltl_formulas # None
    /\ \E i \in 1..Len(propositions[1]) :
        /\ ~propositions[1][i].approved
        /\ propositions[1][i].id \in ApprovedIds(propositions_file)
    /\ \E k \in 1..Len(ltl_formulas[1]) :
        /\ ~ltl_formulas[1][k].approved
        /\ ltl_formulas[1][k].id \in ApprovedIds(ltl_file)

\* C17: after any sequence of save_* calls, the first one and batches that
\* repeat an id included, each of the three tables holds at most one row per id.
C17_OneRowPerId ==
    /\ DistinctIds(load(properties_file))
    /\ DistinctIds(load(propositions_file))
    /\ DistinctIds(load(ltl_file))

====
